---- MODULE Spec2Model ----
(***************************************************************************)
(* A model of html_reader_mode.HTMLReaderMode: sanitize(), the DOM         *)
(* linearizer _linearize_dom() and the block classifier                    *)
(* _classify_blocks().                                                     *)
(*                                                                         *)
(* Strings are sequences of one-character strings ("c", "C", "x" and the    *)
(* blank), so that                                                         *)
(* str.strip(), str.split(), "".join() and the anchored, case-insensitive  *)
(* keyword patterns are computed rather than assumed.  A parsed document   *)
(* is the pre-order event sequence of its tree (open tag, text node,       *)
(* comment node, close tag); the recursion of traverse() is an explicit    *)
(* stack of call frames.  Floats (link densities and their thresholds) are *)
(* exact fractions <<numerator, denominator>>.                             *)
(***************************************************************************)
EXTENDS Integers, Sequences, FiniteSets, TLC

\* -------------------------------------------------------------- bounds

\* Number of nodes (elements, text nodes, comments) below the traversal root.
MaxNodes == 4

\* Number of blocks handed to _classify_blocks when it is checked on its own.
MaxBlocks == 3

\* Number of times _classify_blocks is run on the same blocks.
MaxRuns == 2

\* -------------------------------------------------------------- strings

Whitespace == {" "}

\* re.IGNORECASE: both sides are compared after case folding.
LowerChar(ch) == IF ch = "C" THEN "c" ELSE ch

Lower(s) == [k \in 1..Len(s) |-> LowerChar(s[k])]

RECURSIVE LStrip(_)
LStrip(s) ==
    IF s # <<>> /\ Head(s) \in Whitespace THEN LStrip(Tail(s)) ELSE s

RECURSIVE RStrip(_)
RStrip(s) ==
    IF s # <<>> /\ s[Len(s)] \in Whitespace
    THEN RStrip(SubSeq(s, 1, Len(s) - 1))
    ELSE s

\* str.strip()
Strip(s) == RStrip(LStrip(s))

\* "".join(parts)
RECURSIVE Join(_)
Join(parts) ==
    IF parts = <<>> THEN <<>> ELSE Head(parts) \o Join(Tail(parts))

\* len(text.split()): the number of maximal runs of non-whitespace characters.
count_words(text) ==
    Cardinality({k \in 1..Len(text) :
        /\ text[k] \notin Whitespace
        /\ (k = 1 \/ text[k - 1] \in Whitespace)})

\* The alternatives of the pattern f"^({'|'.join(keywords)})$": joining an
\* empty list gives "^()$", whose only alternative is the empty string.
Alternatives(keywords) ==
    IF keywords = <<>> THEN {<<>>} ELSE {keywords[k] : k \in 1..Len(keywords)}

\* Mutant of RegexSearch: the pattern is not anchored, so that the empty
\* alternation of an empty keyword list is found in every text.
RegexSearchUnanchored(keywords, text) ==
    \E kw \in Alternatives(keywords) :
        \E a \in 1..(Len(text) + 1) : \E b \in (a - 1)..Len(text) :
            Lower(kw) = Lower(SubSeq(text, a, b))

\* re.compile(pattern, re.IGNORECASE).search(text) for an anchored
\* alternation of literal keywords, on a text without a trailing newline.
RegexSearch(keywords, text) ==
    \E kw \in Alternatives(keywords) : Lower(kw) = Lower(text)

\* -------------------------------------------------------------- fractions

Fraction(n, d) == <<n, d>>

\* a <= b for fractions with positive denominators.
FracLe(a, b) == a[1] * b[2] <= b[1] * a[2]

\* -------------------------------------------------------------- documents

DEFAULT_BLOCK_TAGS ==
    {"div", "p", "h1", "h2", "h3", "h4", "h5", "h6", "li", "blockquote",
     "pre", "header", "footer", "section", "article", "aside"}

DEFAULT_SCRIPT_TAGS == {"script", "style", "noscript", "iframe", "svg"}

\* Tag names that occur in the documents of the model: a default block tag,
\* a tag that is a block tag only when configured, the link tag.
TagNames == {"p", "custom", "a"}

\* The strings of the text nodes of the model: whitespace only, one word,
\* a keyword in upper case with trailing whitespace, three words.
NodeTexts == {<<" ">>, <<"x">>, <<"C", " ">>, <<"x", " ", "x", " ", "x">>}

OpenTag(name) == [kind |-> "open", name |-> name, text |-> <<>>]

CloseTag == [kind |-> "close", name |-> "", text |-> <<>>]

TextNode(s) == [kind |-> "text", name |-> "", text |-> s]

CommentNode == [kind |-> "comment", name |-> "", text |-> <<>>]

LeafNodes == {TextNode(s) : s \in NodeTexts} \cup {CommentNode}

\* A script-like element: the parser reads its content as one string.
ScriptElements ==
    {<<OpenTag("script"), CloseTag>>,
     <<OpenTag("script"), TextNode(<<"x">>), CloseTag>>}

\* Forest[n]: the event sequences of the ordered forests with n nodes.
Forest[n \in 0..MaxNodes] ==
    IF n = 0 THEN {<<>>}
    ELSE {<<l>> \o rest : l \in LeafNodes, rest \in Forest[n - 1]}
         \cup UNION {
            {<<OpenTag(t)>> \o inner \o <<CloseTag>> \o rest :
                inner \in Forest[k], rest \in Forest[n - 1 - k]} :
            t \in TagNames, k \in 0..(n - 1)}
         \cup UNION {
            {se \o rest : rest \in Forest[n - (Len(se) - 1)]} :
            se \in {e \in ScriptElements : Len(e) - 1 <= n}}

\* The parser never yields two text nodes side by side: it merges them.
NoAdjacentText(events) ==
    \A k \in 1..(Len(events) - 1) :
        ~(events[k].kind = "text" /\ events[k + 1].kind = "text")

Documents ==
    {d \in UNION {Forest[n] : n \in 0..MaxNodes} : NoAdjacentText(d)}

\* The tree below soup.body, as the events of the <body> element itself.
RootName == "body"

WithRoot(events) == <<OpenTag(RootName)>> \o events \o <<CloseTag>>

\* Mutant of Decompose: a script-like element is unwrapped, its children
\* stay in the tree.
RECURSIVE DecomposeKeepsChildren(_, _, _)
DecomposeKeepsChildren(events, script_tags, skip) ==
    IF events = <<>> THEN <<>>
    ELSE LET e == Head(events)
             rest == Tail(events)
         IN  IF skip > 0
             THEN CASE e.kind = "open" ->
                        <<e>> \o DecomposeKeepsChildren(rest, script_tags,
                                                        skip + 1)
                    [] e.kind = "close" ->
                        (IF skip = 1 THEN <<>> ELSE <<e>>)
                        \o DecomposeKeepsChildren(rest, script_tags, skip - 1)
                    [] OTHER ->
                        <<e>> \o DecomposeKeepsChildren(rest, script_tags, skip)
             ELSE IF e.kind = "open" /\ e.name \in script_tags
                  THEN DecomposeKeepsChildren(rest, script_tags, 1)
                  ELSE <<e>> \o DecomposeKeepsChildren(rest, script_tags, 0)

\* for script in soup(self.script_tags): script.decompose()
\* drops every element with a script-like tag, with its whole subtree.
RECURSIVE Decompose(_, _, _)
Decompose(events, script_tags, skip) ==
    IF events = <<>> THEN <<>>
    ELSE LET e == Head(events)
             rest == Tail(events)
         IN  IF skip > 0
             THEN Decompose(rest, script_tags,
                            CASE e.kind = "open" -> skip + 1
                              [] e.kind = "close" -> skip - 1
                              [] OTHER -> skip)
             ELSE IF e.kind = "open" /\ e.name \in script_tags
                  THEN Decompose(rest, script_tags, 1)
                  ELSE <<e>> \o Decompose(rest, script_tags, 0)

\* -------------------------------------------------------------- TextBlock

\* TextBlock.__init__
TextBlock(text_builder, num_words, num_linked_words, tag_level, tag_name) ==
    [text |-> Strip(Join(text_builder)),
     num_words |-> num_words,
     num_linked_words |-> num_linked_words,
     link_density |-> IF num_words > 0
                      THEN Fraction(num_linked_words, num_words)
                      ELSE Fraction(0, 1),
     tag_level |-> tag_level,
     tag_name |-> tag_name,
     is_content |-> FALSE,
     to_be_excluded |-> FALSE]

\* -------------------------------------------------------------- configuration

\* HTMLReaderMode.__init__: the reader's options.
ReaderMode(cutoff_threshold, block_words, preceding, density, tags, tk, ck) ==
    [minimum_cutoff_threshold |-> cutoff_threshold,
     minimum_block_words |-> block_words,
     maximum_preceding_block_link_density |-> preceding,
     maximum_block_link_density |-> density,
     block_tags |-> tags,
     script_tags |-> DEFAULT_SCRIPT_TAGS,
     terminating_keywords |-> tk,
     cutoff_keywords |-> ck]

\* Keyword lists of the model: none, or the two keywords "c c" and "c".
KeywordLists == {<<>>, <<<<"c", " ", "c">>, <<"c">>>>}

\* The pairs of keyword lists of the model: not both empty.
KeywordPairs == (KeywordLists \X KeywordLists) \ {<<(<<>>), (<<>>)>>}

\* The readers sanitize() is run with: blocks of up to two words short, a
\* cutoff after more than one content word, the default link densities; the
\* default block tags with every pair of keyword lists but the empty one, and
\* the block tag "custom".
SanitizeReaders ==
    {ReaderMode(1, 2, Fraction(1, 2), Fraction(33, 100), DEFAULT_BLOCK_TAGS,
                kws[1], kws[2]) :
        kws \in KeywordPairs}
    \cup {ReaderMode(1, 2, Fraction(1, 2), Fraction(33, 100), {"custom"},
                     kws, kws) : kws \in KeywordLists \ {<<>>}}

\* The readers _classify_blocks is checked with on its own: the default
\* minimum_block_words (16) and a small one, a cutoff threshold of 0 and one
\* a single long block can equal, the default maximum_block_link_density
\* and one a block can equal, the default density for the preceding block.
ClassifyReaders ==
    {ReaderMode(ct, bw, Fraction(1, 2), d, DEFAULT_BLOCK_TAGS, kws[1], kws[2]) :
        ct \in {0, 17}, bw \in {2, 16},
        d \in {Fraction(33, 100), Fraction(1, 1)},
        kws \in KeywordPairs}

\* The blocks _classify_blocks is checked with on its own, as the linearizer
\* builds them: a text that is not empty (a keyword in upper case, or a
\* keyword followed by another word), at least one word, no more linked
\* words than words.
BlockTexts == {<<"C">>, <<"c", " ", "x">>}

BlockWords == {2, 16, 17}

LinkedWords(num_words) == {0, num_words}

ClassifyBlocks ==
    UNION {{TextBlock(<<t>>, w, l, 1, "p") :
                t \in BlockTexts, l \in LinkedWords(w)} : w \in BlockWords}

\* The sequences of up to n of them.
BlockSeqs[n \in 0..MaxBlocks] ==
    IF n = 0 THEN {<<>>}
    ELSE BlockSeqs[n - 1]
         \cup {Append(bs, b) : bs \in {q \in BlockSeqs[n - 1] : Len(q) = n - 1},
                               b \in ClassifyBlocks}

\* -------------------------------------------------------------- state

VARIABLES
    html,                      \* sanitize's argument: "None", "" or "doc"
    doc,                       \* what BeautifulSoup(html, "html.parser") holds
    cfg,                       \* self: the reader's options
    pc,                        \* where sanitize is
    tree,                      \* root, after the script-like elements are gone
    pos,                       \* the next event of tree to visit
    stack,                     \* the open calls of traverse(), innermost last
    current_text,
    current_num_words,
    current_num_linked_words,
    run_nodes,                 \* history: where current_text's strings are in tree
    blocks,
    block_nodes,               \* history: where each block's strings are in tree
    i,                         \* _classify_blocks' loop index, counted from 1
    cutoff,
    cutoff_at,                 \* history: the block that latched cutoff, or 0
    content_words_so_far,
    runs,                      \* the calls of _classify_blocks made so far
    result                     \* sanitize's return value

vars ==
    <<html, doc, cfg, pc, tree, pos, stack, current_text, current_num_words,
      current_num_linked_words, run_nodes, blocks, block_nodes, i, cutoff,
      cutoff_at, content_words_so_far, runs, result>>

linearizer_vars ==
    <<tree, pos, stack, current_text, current_num_words,
      current_num_linked_words, run_nodes, block_nodes>>

classifier_vars == <<i, cutoff, cutoff_at, content_words_so_far>>

input_vars == <<html, doc, cfg>>

\* The state before sanitize(html) runs; nothing is parsed yet.
Idle ==
    /\ pc = "start"
    /\ tree = <<>>
    /\ pos = 1
    /\ stack = <<>>
    /\ current_text = <<>>
    /\ current_num_words = 0
    /\ current_num_linked_words = 0
    /\ run_nodes = <<>>
    /\ blocks = <<>>
    /\ block_nodes = <<>>
    /\ i = 0
    /\ cutoff = FALSE
    /\ cutoff_at = 0
    /\ content_words_so_far = 0
    /\ runs = 0
    /\ result = <<>>

Init ==
    /\ html \in {"None", "", "doc"}
    /\ doc \in IF html = "doc" THEN Documents ELSE {<<>>}
    /\ cfg \in SanitizeReaders
    /\ Idle

\* -------------------------------------------------------------- sanitize

\* Mutant of Falsy: only an absent document counts.
FalsyOnlyNone(value) == value = "None"

\* not html
Falsy(value) == value \in {"None", ""}

\* if not html: return []
ReturnEmpty ==
    /\ pc = "start"
    /\ Falsy(html)
    /\ pc' = "done"
    /\ result' = <<>>
    /\ UNCHANGED <<input_vars, runs, linearizer_vars, blocks, classifier_vars>>

\* soup = BeautifulSoup(html, "html.parser"); the script-like elements are
\* decomposed; root = soup.body; _linearize_dom(root) starts.
Parse ==
    /\ pc = "start"
    /\ ~Falsy(html)
    /\ tree' = WithRoot(Decompose(doc, cfg.script_tags, 0))
    /\ pos' = 1
    /\ pc' = "linearize"
    /\ UNCHANGED <<input_vars, runs, stack, current_text, current_num_words,
                   current_num_linked_words, run_nodes, blocks, block_nodes,
                   classifier_vars, result>>

\* -------------------------------------------------------------- _linearize_dom

\* Mutant of CallArgs: only the children of a link are in a link.
CallArgsLinkNotInherited ==
    IF stack = <<>>
    THEN [depth |-> 0, in_link |-> FALSE, container_tag |-> "p"]
    ELSE LET f == stack[Len(stack)]
         IN  [depth |-> f.depth + 1,
              in_link |-> f.is_link,
              container_tag |-> f.next_container_tag]

\* The arguments of the call traverse(node, ...) about to be made: those of
\* traverse(root, 0, False, "p"), or those the enclosing call passes to a child.
CallArgs ==
    IF stack = <<>>
    THEN [depth |-> 0, in_link |-> FALSE, container_tag |-> "p"]
    ELSE LET f == stack[Len(stack)]
         IN  [depth |-> f.depth + 1,
              in_link |-> f.in_link \/ f.is_link,
              container_tag |-> f.next_container_tag]

\* Mutant of FlushedBlocks: a block is emitted whatever the run holds.
FlushedBlocksAlways(tag_level, tag_name) ==
    Append(blocks,
           TextBlock(current_text, current_num_words,
                     current_num_linked_words, tag_level, tag_name))

\* blocks after flush_block(tag_level, tag_name)
FlushedBlocks(tag_level, tag_name) ==
    IF current_text # <<>> /\ Strip(Join(current_text)) # <<>>
    THEN Append(blocks,
                TextBlock(current_text, current_num_words,
                          current_num_linked_words, tag_level, tag_name))
    ELSE blocks

\* Mutant of flush_block: the linked-word count is not reset.
flush_block_keeps_linked(tag_level, tag_name) ==
    /\ blocks' = FlushedBlocks(tag_level, tag_name)
    /\ block_nodes' = IF Len(blocks') > Len(blocks)
                      THEN Append(block_nodes, run_nodes)
                      ELSE block_nodes
    /\ current_text' = <<>>
    /\ current_num_words' = 0
    /\ current_num_linked_words' = current_num_linked_words
    /\ run_nodes' = <<>>

\* flush_block(tag_level, tag_name)
flush_block(tag_level, tag_name) ==
    /\ blocks' = FlushedBlocks(tag_level, tag_name)
    /\ block_nodes' = IF Len(blocks') > Len(blocks)
                      THEN Append(block_nodes, run_nodes)
                      ELSE block_nodes
    /\ current_text' = <<>>
    /\ current_num_words' = 0
    /\ current_num_linked_words' = 0
    /\ run_nodes' = <<>>

NoFlush ==
    UNCHANGED <<blocks, block_nodes, current_text, current_num_words,
                current_num_linked_words, run_nodes>>

AtNode ==
    /\ pc = "linearize"
    /\ pos <= Len(tree)

\* traverse(node, ...) on a Comment: return
VisitComment ==
    /\ AtNode
    /\ tree[pos].kind = "comment"
    /\ pos' = pos + 1
    /\ NoFlush
    /\ UNCHANGED <<input_vars, runs, pc, tree, stack, classifier_vars, result>>

\* traverse(node, ...) on a NavigableString
VisitText ==
    /\ AtNode
    /\ tree[pos].kind = "text"
    /\ LET text == tree[pos].text
           words == count_words(text)
       IN  IF Strip(text) = <<>>
           THEN UNCHANGED <<current_text, current_num_words,
                            current_num_linked_words, run_nodes>>
           ELSE /\ current_text' = Append(current_text, text)
                /\ run_nodes' = Append(run_nodes, pos)
                /\ current_num_words' = current_num_words + words
                /\ current_num_linked_words' =
                       IF CallArgs.in_link
                       THEN current_num_linked_words + words
                       ELSE current_num_linked_words
    /\ pos' = pos + 1
    /\ UNCHANGED <<input_vars, runs, pc, tree, stack, blocks, block_nodes,
                   classifier_vars, result>>

\* Mutant of EnterTag: the text collected before a block element is flushed
\* under that element's own tag name.
EnterTagFlushesOwnName ==
    /\ AtNode
    /\ tree[pos].kind = "open"
    /\ LET name == tree[pos].name
           args == CallArgs
           is_block == name \in cfg.block_tags
           is_link == name = "a"
           next_container_tag == IF is_block THEN name ELSE args.container_tag
       IN  /\ IF is_block
              THEN flush_block(args.depth, next_container_tag)
              ELSE NoFlush
           /\ stack' = Append(stack,
                  [node |-> pos, depth |-> args.depth,
                   in_link |-> args.in_link,
                   container_tag |-> args.container_tag,
                   is_block |-> is_block, is_link |-> is_link,
                   next_container_tag |-> next_container_tag])
    /\ pos' = pos + 1
    /\ UNCHANGED <<input_vars, runs, pc, tree, classifier_vars, result>>

\* traverse(node, ...) on a Tag, up to the loop over its children
EnterTag ==
    /\ AtNode
    /\ tree[pos].kind = "open"
    /\ LET name == tree[pos].name
           args == CallArgs
           is_block == name \in cfg.block_tags
           is_link == name = "a"
           next_container_tag == IF is_block THEN name ELSE args.container_tag
       IN  /\ IF is_block
              THEN flush_block(args.depth, args.container_tag)
              ELSE NoFlush
           /\ stack' = Append(stack,
                  [node |-> pos, depth |-> args.depth,
                   in_link |-> args.in_link,
                   container_tag |-> args.container_tag,
                   is_block |-> is_block, is_link |-> is_link,
                   next_container_tag |-> next_container_tag])
    /\ pos' = pos + 1
    /\ UNCHANGED <<input_vars, runs, pc, tree, classifier_vars, result>>

\* traverse(node, ...) on a Tag, after the loop over its children
LeaveTag ==
    /\ AtNode
    /\ tree[pos].kind = "close"
    /\ LET f == stack[Len(stack)]
       IN  IF f.is_block
           THEN flush_block(f.depth, f.next_container_tag)
           ELSE NoFlush
    /\ stack' = SubSeq(stack, 1, Len(stack) - 1)
    /\ pos' = pos + 1
    /\ UNCHANGED <<input_vars, runs, pc, tree, classifier_vars, result>>

\* flush_block(0, "p"); return blocks; self._classify_blocks(blocks) starts
FinalFlush ==
    /\ pc = "linearize"
    /\ pos > Len(tree)
    /\ flush_block(0, "p")
    /\ pc' = "classify"
    /\ UNCHANGED <<input_vars, runs, tree, pos, stack, classifier_vars, result>>

\* -------------------------------------------------------------- _classify_blocks

\* Mutant of ClassifyEnter: the word count of an earlier call is kept.
ClassifyEnterKeepsCount ==
    /\ pc = "classify"
    /\ pc' = IF blocks = <<>> THEN "project" ELSE "loop"
    /\ i' = 1
    /\ cutoff' = FALSE
    /\ cutoff_at' = 0
    /\ content_words_so_far' = content_words_so_far
    /\ runs' = runs + 1
    /\ UNCHANGED <<input_vars, linearizer_vars, blocks, result>>

\* if not blocks: return; the patterns are compiled; cutoff = False;
\* content_words_so_far = 0
ClassifyEnter ==
    /\ pc = "classify"
    /\ pc' = IF blocks = <<>> THEN "project" ELSE "loop"
    /\ i' = 1
    /\ cutoff' = FALSE
    /\ cutoff_at' = 0
    /\ content_words_so_far' = 0
    /\ runs' = runs + 1
    /\ UNCHANGED <<input_vars, linearizer_vars, blocks, result>>

InLoop ==
    /\ pc = "loop"
    /\ i <= Len(blocks)

\* Mutant of TerminatingMatch: a keyword excludes a block of any length.
TerminatingMatchAnyLength(current_block) ==
    RegexSearch(cfg.terminating_keywords, current_block.text)

\* terminating_regex.search(current_block.text)
\* and current_block.num_words < self.minimum_block_words
TerminatingMatch(current_block) ==
    /\ RegexSearch(cfg.terminating_keywords, current_block.text)
    /\ current_block.num_words < cfg.minimum_block_words

\* Mutant of CutoffMatch: the threshold itself already permits the latch.
CutoffMatchAtThreshold(current_block) ==
    /\ RegexSearch(cfg.cutoff_keywords, current_block.text)
    /\ content_words_so_far >= cfg.minimum_cutoff_threshold

\* cutoff_regex.search(current_block.text)
\* and content_words_so_far > self.minimum_cutoff_threshold
CutoffMatch(current_block) ==
    /\ RegexSearch(cfg.cutoff_keywords, current_block.text)
    /\ content_words_so_far > cfg.minimum_cutoff_threshold

\* next_block is None or next_block.num_words <= self.minimum_block_words
NextShort(k) ==
    k >= Len(blocks) \/ blocks[k + 1].num_words <= cfg.minimum_block_words

\* prev_block is None or prev_block.num_words <= self.minimum_block_words
PrevShort(k) ==
    k <= 1 \/ blocks[k - 1].num_words <= cfg.minimum_block_words

\* prev_block is None or prev_block.link_density
\* <= self.maximum_preceding_block_link_density
PrevDensityOk(k) ==
    k <= 1 \/ FracLe(blocks[k - 1].link_density,
                     cfg.maximum_preceding_block_link_density)

\* Mutant of IsContent: a block that follows a link-dense block is never
\* content.
IsContentNeverAfterLinks(k) ==
    /\ FracLe(blocks[k].link_density, cfg.maximum_block_link_density)
    /\ PrevDensityOk(k)
    /\ \/ blocks[k].num_words > cfg.minimum_block_words
       \/ ~NextShort(k)
       \/ ~PrevShort(k)

\* Mutant of IsContent: the block's own link density is not looked at.
IsContentIgnoresDensity(k) ==
    \/ blocks[k].num_words > cfg.minimum_block_words
    \/ ~NextShort(k)
    \/ PrevDensityOk(k) /\ ~PrevShort(k)

\* Mutant of IsContent: a long previous block makes a short block content
\* whatever the previous block's link density.
IsContentPrevWordsAlways(k) ==
    /\ FracLe(blocks[k].link_density, cfg.maximum_block_link_density)
    /\ \/ blocks[k].num_words > cfg.minimum_block_words
       \/ ~NextShort(k)
       \/ ~PrevShort(k)

\* Mutant of IsContent: only the next block can make a short block content.
IsContentNextOnly(k) ==
    /\ FracLe(blocks[k].link_density, cfg.maximum_block_link_density)
    /\ \/ blocks[k].num_words > cfg.minimum_block_words
       \/ ~NextShort(k)

\* The value of is_content the link density and neighbour rules give block k.
IsContent(k) ==
    IF FracLe(blocks[k].link_density, cfg.maximum_block_link_density)
    THEN IF PrevDensityOk(k)
         THEN IF blocks[k].num_words <= cfg.minimum_block_words
              THEN IF NextShort(k)
                   THEN IF PrevShort(k) THEN FALSE ELSE TRUE
                   ELSE TRUE
              ELSE TRUE
         ELSE IF blocks[k].num_words <= cfg.minimum_block_words
              THEN IF NextShort(k) THEN FALSE ELSE TRUE
              ELSE TRUE
    ELSE FALSE

NextBlock ==
    /\ i' = i + 1
    /\ pc' = pc
    /\ UNCHANGED <<input_vars, runs, linearizer_vars, result>>

\* Mutant of ClassifyAfterCutoff: the block is classified as if no cutoff
\* had latched.
ClassifyAfterCutoffAnyway ==
    /\ InLoop
    /\ cutoff
    /\ blocks' = [blocks EXCEPT ![i].to_be_excluded = TRUE,
                                ![i].is_content = IsContent(i)]
    /\ UNCHANGED <<cutoff, cutoff_at, content_words_so_far>>
    /\ NextBlock

\* if cutoff: current_block.to_be_excluded = True; continue
ClassifyAfterCutoff ==
    /\ InLoop
    /\ cutoff
    /\ blocks' = [blocks EXCEPT ![i].to_be_excluded = TRUE]
    /\ UNCHANGED <<cutoff, cutoff_at, content_words_so_far>>
    /\ NextBlock

\* Mutant of ClassifyLatch: the block that latches the cutoff is kept.
ClassifyLatchKeepsBlock ==
    /\ InLoop
    /\ ~cutoff
    /\ TerminatingMatch(blocks[i])
    /\ CutoffMatch(blocks[i])
    /\ blocks' = [blocks EXCEPT ![i].to_be_excluded = TRUE,
                                ![i].is_content = TRUE]
    /\ cutoff' = TRUE
    /\ cutoff_at' = i
    /\ UNCHANGED content_words_so_far
    /\ NextBlock

\* The keyword test passes and the cutoff test too: cutoff = True
ClassifyLatch ==
    /\ InLoop
    /\ ~cutoff
    /\ TerminatingMatch(blocks[i])
    /\ CutoffMatch(blocks[i])
    /\ blocks' = [blocks EXCEPT ![i].to_be_excluded = TRUE,
                                ![i].is_content = FALSE]
    /\ cutoff' = TRUE
    /\ cutoff_at' = i
    /\ UNCHANGED content_words_so_far
    /\ NextBlock

\* Mutant of ClassifyExcluded: the continue is missing, so the link density
\* and neighbour rules still decide.
ClassifyExcludedFallsThrough ==
    /\ InLoop
    /\ ~cutoff
    /\ ~(TerminatingMatch(blocks[i]) /\ CutoffMatch(blocks[i]))
    /\ TerminatingMatch(blocks[i]) \/ blocks[i].to_be_excluded
    /\ blocks' = [blocks EXCEPT ![i].to_be_excluded = TRUE,
                                ![i].is_content = IsContent(i)]
    /\ content_words_so_far' =
           IF IsContent(i)
           THEN content_words_so_far + blocks[i].num_words
           ELSE content_words_so_far
    /\ UNCHANGED <<cutoff, cutoff_at>>
    /\ NextBlock

\* if current_block.to_be_excluded: current_block.is_content = False; continue
ClassifyExcluded ==
    /\ InLoop
    /\ ~cutoff
    /\ ~(TerminatingMatch(blocks[i]) /\ CutoffMatch(blocks[i]))
    /\ TerminatingMatch(blocks[i]) \/ blocks[i].to_be_excluded
    /\ blocks' = [blocks EXCEPT ![i].to_be_excluded = TRUE,
                                ![i].is_content = FALSE]
    /\ UNCHANGED <<cutoff, cutoff_at, content_words_so_far>>
    /\ NextBlock

\* Mutant of ClassifyByDensity: the words of every block the rules decide
\* are counted, content or not.
ClassifyByDensityCountsAll ==
    /\ InLoop
    /\ ~cutoff
    /\ ~TerminatingMatch(blocks[i])
    /\ ~blocks[i].to_be_excluded
    /\ blocks' = [blocks EXCEPT ![i].is_content = IsContent(i)]
    /\ content_words_so_far' = content_words_so_far + blocks[i].num_words
    /\ UNCHANGED <<cutoff, cutoff_at>>
    /\ NextBlock

\* The link density and neighbour rules decide; content words are counted.
ClassifyByDensity ==
    /\ InLoop
    /\ ~cutoff
    /\ ~TerminatingMatch(blocks[i])
    /\ ~blocks[i].to_be_excluded
    /\ blocks' = [blocks EXCEPT ![i].is_content = IsContent(i)]
    /\ content_words_so_far' =
           IF IsContent(i)
           THEN content_words_so_far + blocks[i].num_words
           ELSE content_words_so_far
    /\ UNCHANGED <<cutoff, cutoff_at>>
    /\ NextBlock

\* The loop is over: _classify_blocks returns.
ClassifyExit ==
    /\ pc = "loop"
    /\ i > Len(blocks)
    /\ pc' = "project"
    /\ UNCHANGED <<input_vars, runs, linearizer_vars, blocks, classifier_vars,
                   result>>

\* Mutant of Projection: every block that is not excluded is returned.
RECURSIVE ProjectionOfNotExcluded(_)
ProjectionOfNotExcluded(bs) ==
    IF bs = <<>> THEN <<>>
    ELSE (IF ~Head(bs).to_be_excluded
          THEN <<[tag |-> Head(bs).tag_name, content |-> Head(bs).text]>>
          ELSE <<>>) \o ProjectionOfNotExcluded(Tail(bs))

\* [{"tag": b.tag_name, "content": b.text} for b in blocks if b.is_content]
RECURSIVE Projection(_)
Projection(bs) ==
    IF bs = <<>> THEN <<>>
    ELSE (IF Head(bs).is_content
          THEN <<[tag |-> Head(bs).tag_name, content |-> Head(bs).text]>>
          ELSE <<>>) \o Projection(Tail(bs))

\* return [...]
Project ==
    /\ pc = "project"
    /\ result' = Projection(blocks)
    /\ pc' = "done"
    /\ UNCHANGED <<input_vars, runs, linearizer_vars, blocks, classifier_vars>>

\* -------------------------------------------------------------- specifications

Linearize == VisitComment \/ VisitText \/ EnterTag \/ LeaveTag \/ FinalFlush

Classify ==
    \/ ClassifyEnter
    \/ ClassifyAfterCutoff
    \/ ClassifyLatch
    \/ ClassifyExcluded
    \/ ClassifyByDensity
    \/ ClassifyExit

\* sanitize(html), from the call to the return.
Next == ReturnEmpty \/ Parse \/ Linearize \/ Classify \/ Project

Spec == Init /\ [][Next]_vars

\* _classify_blocks(blocks) on its own, on blocks like the linearizer's,
\* followed by sanitize's projection.
ClassifyInit ==
    /\ html = "doc"
    /\ doc = <<>>
    /\ cfg \in ClassifyReaders
    /\ blocks \in BlockSeqs[MaxBlocks]
    /\ block_nodes = [k \in 1..Len(blocks) |-> <<>>]
    /\ pc = "classify"
    /\ tree = <<>>
    /\ pos = 1
    /\ stack = <<>>
    /\ current_text = <<>>
    /\ current_num_words = 0
    /\ current_num_linked_words = 0
    /\ run_nodes = <<>>
    /\ i = 0
    /\ cutoff = FALSE
    /\ cutoff_at = 0
    /\ content_words_so_far = 0
    /\ runs = 0
    /\ result = <<>>

ClassifyNext == Classify \/ Project

ClassifySpec == ClassifyInit /\ [][ClassifyNext]_vars

\* A caller hands the blocks, classified and projected, to _classify_blocks
\* once more.
ClassifyAgain ==
    /\ pc = "done"
    /\ 0 < runs
    /\ runs < MaxRuns
    /\ pc' = "classify"
    /\ UNCHANGED <<input_vars, runs, linearizer_vars, blocks, classifier_vars,
                   result>>

ReclassifyNext == Classify \/ Project \/ ClassifyAgain

\* _classify_blocks(blocks) and the projection, run again on their own output.
ReclassifySpec == ClassifyInit /\ [][ReclassifyNext]_vars

\* -------------------------------------------------------------- properties

\* The whole text equals one of the keywords, case-insensitively.
EqualsKeyword(text, keywords) ==
    \E k \in 1..Len(keywords) : Lower(keywords[k]) = Lower(text)

\* The classification pass is over.
PassOver == pc \in {"project", "done"}

\* Block j has been through the loop body of the running pass.
Visited(j) == j \in 1..Len(blocks) /\ (PassOver \/ (pc = "loop" /\ j < i))

\* C1: once the cutoff latch is set at block cutoff_at it stays set for the
\* rest of the pass; the latching block is not content, and every later
\* block is not content and, once visited, marked to_be_excluded, so that
\* at the end of the pass every block after the latching one is excluded.
C1_CutoffIsOneWay ==
    /\ cutoff <=> cutoff_at > 0
    /\ cutoff_at > 0 =>
        /\ cutoff_at <= Len(blocks)
        /\ Visited(cutoff_at)
        /\ ~blocks[cutoff_at].is_content
        /\ \A j \in (cutoff_at + 1)..Len(blocks) :
            /\ ~blocks[j].is_content
            /\ Visited(j) => blocks[j].to_be_excluded

\* A pass is over in which the cutoff latched before the last block.
C1_Witness ==
    /\ pc = "done"
    /\ cutoff
    /\ cutoff_at < Len(blocks)

\* What C2 says latches the cutoff at the block the loop is at.
C2_LatchCondition ==
    /\ ~cutoff
    /\ EqualsKeyword(blocks[i].text, cfg.terminating_keywords)
    /\ blocks[i].num_words < cfg.minimum_block_words
    /\ EqualsKeyword(blocks[i].text, cfg.cutoff_keywords)
    /\ content_words_so_far > cfg.minimum_cutoff_threshold

\* C2: a step of the loop sets the cutoff latch if and only if the latch was
\* not set, the block's whole text matches the terminating pattern, it has
\* fewer than minimum_block_words words, its whole text matches the cutoff
\* pattern and content_words_so_far is greater than minimum_cutoff_threshold.
C2_LatchIffCondition ==
    [][InLoop => ((cutoff' /\ ~cutoff) <=> C2_LatchCondition)]_vars

\* A short block that matches both patterns has been visited with
\* content_words_so_far equal to a positive threshold, and did not latch.
C2_Witness ==
    /\ pc = "loop"
    /\ i > 1
    /\ ~cutoff
    /\ EqualsKeyword(blocks[i - 1].text, cfg.terminating_keywords)
    /\ EqualsKeyword(blocks[i - 1].text, cfg.cutoff_keywords)
    /\ blocks[i - 1].num_words < cfg.minimum_block_words
    /\ content_words_so_far = cfg.minimum_cutoff_threshold
    /\ content_words_so_far > 0

\* Block j is a short block whose whole text is a terminating keyword.
ShortTerminating(j) ==
    /\ EqualsKeyword(blocks[j].text, cfg.terminating_keywords)
    /\ blocks[j].num_words < cfg.minimum_block_words

\* C3: a block whose whole text is a terminating keyword and that has fewer
\* than minimum_block_words words is, once visited and until the end of the
\* pass, to_be_excluded and not content, whatever its link density and its
\* neighbours and whether or not the cutoff latched; the step that visits it
\* leaves content_words_so_far as it is.
C3_ShortTerminatingExcluded ==
    /\ [](\A j \in 1..Len(blocks) :
            ShortTerminating(j) =>
                /\ ~blocks[j].is_content
                /\ Visited(j) => blocks[j].to_be_excluded)
    /\ [][(InLoop /\ ShortTerminating(i)) =>
            content_words_so_far' = content_words_so_far]_vars

\* A pass is over in which a link-free short terminating block, between two
\* long blocks, was excluded without the cutoff having latched.
C3_Witness ==
    /\ pc = "done"
    /\ ~cutoff
    /\ Len(blocks) = 3
    /\ ShortTerminating(2)
    /\ blocks[2].num_linked_words = 0
    /\ blocks[1].num_words > cfg.minimum_block_words
    /\ blocks[3].num_words > cfg.minimum_block_words
    /\ blocks[1].is_content
    /\ blocks[2].to_be_excluded

\* The thresholds of Scenario A are the defaults.
DefaultThresholds ==
    /\ cfg.minimum_block_words = 16
    /\ cfg.maximum_block_link_density = Fraction(33, 100)
    /\ cfg.maximum_preceding_block_link_density = Fraction(1, 2)

\* A navigation block of two linked words, then a link-free paragraph of at
\* least min_words words.
ScenarioA(min_words) ==
    /\ DefaultThresholds
    /\ Len(blocks) = 2
    /\ blocks[1].num_words = 2
    /\ blocks[1].num_linked_words = 2
    /\ blocks[2].num_linked_words = 0
    /\ blocks[2].num_words >= min_words

\* C4 as stated: in Scenario A with a paragraph of at least 16 words the
\* navigation block is not content and the paragraph is.
C4_ScenarioA_AtLeast16 ==
    (PassOver /\ ScenarioA(16)) =>
        (~blocks[1].is_content /\ blocks[2].is_content)

\* C4, amended: in Scenario A with a paragraph of more than 16 words the
\* navigation block is not content and the paragraph is.
C4_ScenarioA_MoreThan16 ==
    (PassOver /\ ScenarioA(17)) =>
        (~blocks[1].is_content /\ blocks[2].is_content)

\* Scenario A has been classified, with a paragraph of 17 words.
C4_Witness ==
    /\ pc = "done"
    /\ ScenarioA(17)
    /\ Len(result) = 1

\* The indices of the content blocks, and the k-th of them in block order.
ContentIndices == {j \in 1..Len(blocks) : blocks[j].is_content}

ContentIndex(k) ==
    CHOOSE j \in ContentIndices :
        Cardinality({m \in ContentIndices : m < j}) = k - 1

\* C5: the list sanitize returns holds exactly one record per block that
\* ended classification as content, with that block's tag_name and text, in
\* the order of the blocks.
C5_ResultIsContentBlocksInOrder ==
    (pc = "done" /\ ~Falsy(html)) =>
        /\ Len(result) = Cardinality(ContentIndices)
        /\ \A k \in 1..Len(result) :
            result[k] = [tag |-> blocks[ContentIndex(k)].tag_name,
                         content |-> blocks[ContentIndex(k)].text]

\* sanitize has returned two records of a document with three blocks, one of
\* them dropped although it is not marked to_be_excluded.
C5_Witness ==
    /\ pc = "done"
    /\ Len(blocks) = 3
    /\ Len(result) = 2
    /\ \A j \in 1..3 : ~blocks[j].to_be_excluded

\* C6: for an empty or absent document sanitize goes from its call straight
\* to its return, of the empty list; nothing is parsed, linearized or
\* classified.
C6_NoInputNoWork ==
    html \in {"None", ""} =>
        /\ pc \in {"start", "done"}
        /\ result = <<>>
        /\ tree = <<>>
        /\ blocks = <<>>
        /\ current_text = <<>>
        /\ i = 0

\* sanitize("") has returned.
C6_Witness ==
    /\ html = ""
    /\ pc = "done"
    /\ result = <<>>

\* A block's counts and link density are what C7 asks for.
WellCounted(b) ==
    /\ 0 <= b.num_linked_words
    /\ b.num_linked_words <= b.num_words
    /\ b.link_density[2] > 0
    /\ FracLe(Fraction(0, 1), b.link_density)
    /\ FracLe(b.link_density, Fraction(1, 1))
    /\ b.num_words = 0 => b.link_density = Fraction(0, 1)

\* C7: every block the linearizer has emitted, and the block a flush would
\* build from the run collected so far (which has no words when the run is
\* empty), has 0 <= num_linked_words <= num_words, a link density within
\* [0, 1], and a link density of 0 when it has no words.
C7_LinkDensityInUnitInterval ==
    /\ \A b \in 1..Len(blocks) : WellCounted(blocks[b])
    /\ WellCounted(TextBlock(current_text, current_num_words,
                             current_num_linked_words, 0, "p"))

\* The linearizer has emitted a block with some but not all words linked,
\* and the run is empty.
C7_Witness ==
    /\ pc = "classify"
    /\ current_text = <<>>
    /\ \E b \in 1..Len(blocks) :
        /\ 0 < blocks[b].num_linked_words
        /\ blocks[b].num_linked_words < blocks[b].num_words

\* The strings collected for block b, in the order they were collected.
Fragments(b) == [k \in 1..Len(block_nodes[b]) |-> tree[block_nodes[b][k]].text]

\* C8 as stated: every emitted block's num_words is the number of
\* whitespace-delimited tokens of the concatenation of its text fragments.
C8_WordsAreTokensOfText ==
    \A b \in 1..Len(blocks) :
        blocks[b].num_words = count_words(Join(Fragments(b)))

\* C9: with an empty terminating keyword list no block is ever marked
\* to_be_excluded and the cutoff never latches; with an empty cutoff keyword
\* list the cutoff never latches; and the pass is never stuck before
\* sanitize returns.
C9_EmptyKeywordListNeverMatches ==
    /\ cfg.terminating_keywords = <<>> =>
        /\ ~cutoff
        /\ \A b \in 1..Len(blocks) : ~blocks[b].to_be_excluded
    /\ cfg.cutoff_keywords = <<>> => ~cutoff
    /\ pc # "done" => ENABLED Next

\* With an empty terminating list, sanitize has returned from a document in
\* which a short block whose text is a cutoff keyword follows content of more
\* words than the cutoff threshold.
C9_Witness ==
    /\ pc = "done"
    /\ cfg.terminating_keywords = <<>>
    /\ \E b \in 2..Len(blocks) :
        /\ EqualsKeyword(blocks[b].text, cfg.cutoff_keywords)
        /\ blocks[b].num_words < cfg.minimum_block_words
        /\ blocks[b - 1].is_content
        /\ blocks[b - 1].num_words > cfg.minimum_cutoff_threshold

\* The number of elements open after the first k events of events.
DepthAfter(events, k) ==
    Cardinality({q \in 1..k : events[q].kind = "open"})
    - Cardinality({q \in 1..k : events[q].kind = "close"})

\* The element opened at q is still open just before event p.
Encloses(events, q, p) ==
    /\ q < p
    /\ events[q].kind = "open"
    /\ \A r \in q..(p - 1) : DepthAfter(events, r) >= DepthAfter(events, q)

\* Where the nearest element with a block tag that encloses event p opens,
\* or 0 when there is none.
NearestBlock(p) ==
    LET enclosing == {q \in 1..(p - 1) :
                        /\ Encloses(tree, q, p)
                        /\ tree[q].name \in cfg.block_tags}
    IN  IF enclosing = {} THEN 0
        ELSE CHOOSE q \in enclosing : \A r \in enclosing : r <= q

\* The text nodes at the positions nodes all have the same nearest enclosing
\* block element.
SameBlock(nodes) ==
    \A k \in 1..Len(nodes) : NearestBlock(nodes[k]) = NearestBlock(nodes[1])

\* Event p opens or closes an element with a block tag.
BlockBoundary(p) ==
    \/ tree[p].kind = "open" /\ tree[p].name \in cfg.block_tags
    \/ /\ tree[p].kind = "close"
       /\ \E q \in 1..(p - 1) :
            /\ Encloses(tree, q, p)
            /\ DepthAfter(tree, q) = DepthAfter(tree, p) + 1
            /\ tree[q].name \in cfg.block_tags

\* C10: the text nodes of an emitted block, and those of the run, all have
\* the same nearest enclosing block element (or none); the block's tag_name
\* is that element's tag name, "p" when there is none; and visiting anything
\* but the start or the end of a block element emits no block and keeps the
\* run.
C10_BlocksFollowBlockElements ==
    /\ [](/\ SameBlock(run_nodes)
          /\ \A b \in 1..Len(blocks) :
                /\ block_nodes[b] # <<>>
                /\ SameBlock(block_nodes[b])
                /\ blocks[b].tag_name =
                        IF NearestBlock(block_nodes[b][1]) = 0 THEN "p"
                        ELSE tree[NearestBlock(block_nodes[b][1])].name)
    /\ [][(AtNode /\ ~BlockBoundary(pos)) =>
            /\ blocks' = blocks
            /\ Len(current_text') >= Len(current_text)]_vars

\* The linearizer has emitted two blocks, the second for the text of a block
\* element nested in the block element of the first.
C10_Witness ==
    /\ pc = "classify"
    /\ Len(blocks) = 2
    /\ NearestBlock(block_nodes[1][1]) > 0
    /\ NearestBlock(block_nodes[2][1]) > NearestBlock(block_nodes[1][1])
    /\ Encloses(tree, NearestBlock(block_nodes[1][1]), block_nodes[2][1])

\* a = b, a > b for fractions with positive denominators.
FracEq(a, b) == a[1] * b[2] = b[1] * a[2]

FracGreater(a, b) == a[1] * b[2] > b[1] * a[2]

\* The loop is at block i and the cutoff has not latched.
Reached == InLoop /\ ~cutoff

\* Block j is short, long.
Short(j) == blocks[j].num_words <= cfg.minimum_block_words

Long(j) == blocks[j].num_words > cfg.minimum_block_words

\* Block j's link density is above maximum_block_link_density.
LinkDense(j) ==
    FracGreater(blocks[j].link_density, cfg.maximum_block_link_density)

\* Block j has a previous block whose link density is above
\* maximum_preceding_block_link_density.
AfterLinkDense(j) ==
    /\ j > 1
    /\ FracGreater(blocks[j - 1].link_density,
                   cfg.maximum_preceding_block_link_density)

\* C11: a block whose link density is greater than
\* maximum_block_link_density is never content, in any state of the pass and
\* at its end; a long block whose link density equals the maximum, reached
\* with the cutoff not latched, is classified content.
C11_LinkDenseNeverContent ==
    /\ [](\A j \in 1..Len(blocks) : LinkDense(j) => ~blocks[j].is_content)
    /\ [][(/\ Reached
            /\ Long(i)
            /\ FracEq(blocks[i].link_density, cfg.maximum_block_link_density))
           => blocks'[i].is_content]_vars

\* A pass is over, without cutoff, in which a long, link-dense block that is
\* the only block was rejected.
C11_Witness ==
    /\ pc = "done"
    /\ ~cutoff
    /\ Len(blocks) = 1
    /\ LinkDense(1)
    /\ Long(1)
    /\ ~blocks[1].is_content
    /\ ~blocks[1].to_be_excluded

\* C12: a short block that is not keyword-excluded, whose link density is
\* at most the maximum and whose previous block is link-dense, and that is
\* reached with the cutoff not latched, is classified content if and only if
\* it has a next block and the next block is long, whatever the number of
\* words of the previous block.
C12_AfterLinkDenseOnlyNextCounts ==
    [][(/\ Reached
        /\ ~ShortTerminating(i)
        /\ ~LinkDense(i)
        /\ Short(i)
        /\ AfterLinkDense(i))
       => (blocks'[i].is_content <=> (i < Len(blocks) /\ Long(i + 1)))]_vars

\* A pass is over, without cutoff, in which the last block, short and free
\* of links, was rejected although its link-dense previous block is long.
C12_Witness ==
    /\ pc = "done"
    /\ ~cutoff
    /\ Len(blocks) = 2
    /\ AfterLinkDense(2)
    /\ Long(1)
    /\ Short(2)
    /\ blocks[2].num_linked_words = 0
    /\ ~ShortTerminating(2)
    /\ ~blocks[2].is_content
    /\ ~blocks[2].to_be_excluded

\* C13: a short block (exactly minimum_block_words words is short) that is
\* not keyword-excluded, whose link density is at most the maximum and whose
\* previous block is absent or not link-dense, and that is reached with the
\* cutoff not latched, is classified content if and only if it has a long
\* next block or a long previous block.
C13_ShortNeedsLongNeighbour ==
    [][(/\ Reached
        /\ ~ShortTerminating(i)
        /\ ~LinkDense(i)
        /\ Short(i)
        /\ ~AfterLinkDense(i))
       => (blocks'[i].is_content <=>
             \/ i < Len(blocks) /\ Long(i + 1)
             \/ i > 1 /\ Long(i - 1))]_vars

\* A pass is over, without cutoff, in which the last block, of exactly
\* minimum_block_words words, is content thanks to a long previous block.
C13_Witness ==
    /\ pc = "done"
    /\ ~cutoff
    /\ Len(blocks) = 2
    /\ ~AfterLinkDense(2)
    /\ Long(1)
    /\ blocks[2].num_words = cfg.minimum_block_words
    /\ ~LinkDense(2)
    /\ ~ShortTerminating(2)
    /\ blocks[2].is_content

\* C14: a long block whose link density is at most the maximum, reached
\* with the cutoff not latched, is classified content, whatever its
\* neighbours and whether or not its text is a keyword.
C14_LongBlockIsContent ==
    [][(Reached /\ Long(i) /\ ~LinkDense(i)) => blocks'[i].is_content]_vars

\* A pass is over, without cutoff, in which a long block whose text is a
\* terminating keyword, between two short link-dense blocks, is content.
C14_Witness ==
    /\ pc = "done"
    /\ ~cutoff
    /\ Len(blocks) = 3
    /\ Long(2)
    /\ ~LinkDense(2)
    /\ EqualsKeyword(blocks[2].text, cfg.terminating_keywords)
    /\ AfterLinkDense(2)
    /\ LinkDense(3)
    /\ Short(1)
    /\ Short(3)
    /\ blocks[2].is_content

\* The sum of num_words over the content blocks among the first k blocks.
RECURSIVE ContentWords(_)
ContentWords(k) ==
    IF k = 0 THEN 0
    ELSE ContentWords(k - 1)
         + (IF blocks[k].is_content THEN blocks[k].num_words ELSE 0)

\* C15: when the loop is at block i, content_words_so_far is the sum of
\* num_words over the content blocks before i, and after the loop over all
\* content blocks; no step decreases it; the step that visits a block adds
\* the block's num_words if it classifies the block content and nothing
\* otherwise (keyword-excluded, rejected by the rules, or after the cutoff).
C15_ContentWordsSoFar ==
    /\ [](/\ pc = "loop" => content_words_so_far = ContentWords(i - 1)
          /\ PassOver => content_words_so_far = ContentWords(Len(blocks)))
    /\ [][/\ content_words_so_far' >= content_words_so_far
          /\ InLoop =>
                content_words_so_far' =
                    IF blocks'[i].is_content
                    THEN content_words_so_far + blocks[i].num_words
                    ELSE content_words_so_far]_vars

\* The loop has counted the first block, content, and then left the count
\* as it was for a second block that the rules rejected.
C15_Witness ==
    /\ pc = "loop"
    /\ i = 3
    /\ blocks[1].is_content
    /\ ~blocks[2].is_content
    /\ ~blocks[2].to_be_excluded
    /\ content_words_so_far = blocks[1].num_words

\* C16: a run of _classify_blocks on blocks that it has classified before
\* changes no block's is_content or to_be_excluded, and the projection that
\* follows it returns the list the projection before it returned.
C16_ClassifyIsIdempotent ==
    [][runs >= 2 =>
        /\ Len(blocks') = Len(blocks)
        /\ \A j \in 1..Len(blocks) :
            /\ blocks'[j].is_content = blocks[j].is_content
            /\ blocks'[j].to_be_excluded = blocks[j].to_be_excluded
        /\ result' = result]_vars

\* A second run and its projection are over, on three blocks of which the
\* first is content, the second latched the cutoff in both runs and the
\* third is excluded for coming after it.
C16_Witness ==
    /\ pc = "done"
    /\ runs = 2
    /\ Len(blocks) = 3
    /\ cutoff_at = 2
    /\ blocks[1].is_content
    /\ blocks[3].to_be_excluded
    /\ Len(result) = 1

\* C20: no block is ever both content and to_be_excluded; the loop index
\* starts at the first block and each step of the loop moves it to the next
\* block and writes no block but the one it is at; outside the loop no
\* block is written.
C20_FlagsWrittenOnceInOrder ==
    /\ [](/\ \A j \in 1..Len(blocks) :
                ~(blocks[j].is_content /\ blocks[j].to_be_excluded)
          /\ pc = "loop" => i \in 1..(Len(blocks) + 1))
    /\ [][/\ InLoop =>
                /\ i' = i + 1
                /\ Len(blocks') = Len(blocks)
                /\ \A j \in 1..Len(blocks) : j # i => blocks'[j] = blocks[j]
          /\ ~InLoop => blocks' = blocks
          /\ pc' = "loop" /\ pc # "loop" => i' = 1]_vars

\* A pass is over that kept the first block, excluded the second for its
\* keyword without latching the cutoff, and kept the third.
C20_Witness ==
    /\ pc = "done"
    /\ ~cutoff
    /\ Len(blocks) = 3
    /\ blocks[1].is_content
    /\ blocks[2].to_be_excluded
    /\ blocks[3].is_content
    /\ ~blocks[3].to_be_excluded

\* The text node at event p of the tree has an <a> element among its
\* ancestors.
HasLinkAncestor(p) ==
    \E q \in 1..(p - 1) : Encloses(tree, q, p) /\ tree[q].name = "a"

\* The tokens of the text nodes at the positions nodes that are in a link.
RECURSIVE LinkedTokens(_)
LinkedTokens(nodes) ==
    IF nodes = <<>> THEN 0
    ELSE (IF HasLinkAncestor(Head(nodes))
          THEN count_words(tree[Head(nodes)].text)
          ELSE 0) + LinkedTokens(Tail(nodes))

\* Event p of the tree is a text node that is not whitespace only.
NonBlankText(p) == tree[p].kind = "text" /\ Strip(tree[p].text) # <<>>

\* C17: the linked-word count of every emitted block, and that of the run,
\* is the sum of the token counts of its text nodes that have an <a>
\* ancestor, at any distance; and visiting a text node that is not blank
\* adds its tokens to the linked-word count of the run if it has an <a>
\* ancestor and nothing otherwise.
C17_LinkedWordsAreWordsInLinks ==
    /\ [](/\ current_num_linked_words = LinkedTokens(run_nodes)
          /\ \A b \in 1..Len(blocks) :
                blocks[b].num_linked_words = LinkedTokens(block_nodes[b]))
    /\ [][(AtNode /\ NonBlankText(pos)) =>
            current_num_linked_words' =
                current_num_linked_words
                + (IF HasLinkAncestor(pos)
                   THEN count_words(tree[pos].text) ELSE 0)]_vars

\* The linearizer has emitted a block of linked words for a text node whose
\* nearest enclosing block element is itself inside the link.
C17_Witness ==
    /\ pc = "classify"
    /\ \E b \in 1..Len(blocks) :
        LET p == block_nodes[b][1]
        IN  /\ blocks[b].num_linked_words > 0
            /\ blocks[b].num_linked_words = blocks[b].num_words
            /\ NearestBlock(p) > 0
            /\ \E q \in 1..(NearestBlock(p) - 1) :
                    Encloses(tree, q, p) /\ tree[q].name = "a"

\* Event p of events is inside an element with a script-like tag.
InScript(events, p) ==
    \E q \in 1..(p - 1) :
        Encloses(events, q, p) /\ events[q].name \in cfg.script_tags

\* The strings, in document order, of the text nodes among the first k
\* events that are not whitespace only and not inside a script-like element
\* (a comment is no text node).
RECURSIVE KeptTexts(_, _)
KeptTexts(events, k) ==
    IF k = 0 THEN <<>>
    ELSE KeptTexts(events, k - 1)
         \o (IF /\ events[k].kind = "text"
                 /\ Strip(events[k].text) # <<>>
                 /\ ~InScript(events, k)
              THEN <<events[k].text>>
              ELSE <<>>)

\* The positions in the tree, in increasing order, of the text nodes before
\* event k that are not whitespace only.
RECURSIVE TextNodesBefore(_)
TextNodesBefore(k) ==
    IF k <= 1 THEN <<>>
    ELSE TextNodesBefore(k - 1)
         \o (IF NonBlankText(k - 1) THEN <<k - 1>> ELSE <<>>)

\* The positions, the strings and the word counts of the first b blocks.
RECURSIVE EmittedNodes(_)
EmittedNodes(b) ==
    IF b = 0 THEN <<>> ELSE EmittedNodes(b - 1) \o block_nodes[b]

RECURSIVE EmittedTexts(_)
EmittedTexts(b) ==
    IF b = 0 THEN <<>> ELSE EmittedTexts(b - 1) \o Fragments(b)

RECURSIVE EmittedWords(_)
EmittedWords(b) ==
    IF b = 0 THEN 0 ELSE EmittedWords(b - 1) + blocks[b].num_words

\* The sum of the token counts of the strings texts.
RECURSIVE Tokens(_)
Tokens(texts) ==
    IF texts = <<>> THEN 0
    ELSE count_words(Head(texts)) + Tokens(Tail(texts))

\* The run holds nothing.
RunEmpty ==
    /\ current_text = <<>>
    /\ current_num_words = 0
    /\ current_num_linked_words = 0

\* The linearizer has returned.
Linearized == pc \in {"classify", "loop", "project", "done"} /\ ~Falsy(html)

\* C18: while the tree is traversed, the text nodes of the emitted blocks,
\* block after block, followed by those of the run are exactly the text
\* nodes visited so far that are not whitespace only, in document order;
\* when the linearizer has returned, the strings of the blocks, block after
\* block, are exactly the strings of the document's text nodes that are not
\* whitespace only and not inside a script-like element, in document order,
\* the sum of num_words over the blocks is the sum of their token counts,
\* and the run is empty; the run is empty after every flush.
C18_LinearizationKeepsText ==
    /\ [](/\ pc = "linearize" =>
                /\ EmittedNodes(Len(blocks)) \o run_nodes = TextNodesBefore(pos)
                /\ current_text =
                       [k \in 1..Len(run_nodes) |-> tree[run_nodes[k]].text]
          /\ Linearized =>
                /\ EmittedTexts(Len(blocks)) = KeptTexts(doc, Len(doc))
                /\ EmittedWords(Len(blocks)) = Tokens(KeptTexts(doc, Len(doc)))
                /\ RunEmpty)
    /\ [][(\/ AtNode /\ BlockBoundary(pos)
           \/ pc = "linearize" /\ pos > Len(tree)) => RunEmpty']_vars

\* The linearizer has returned the block of a document with text on both
\* sides of a script-like element that holds text.
C18_Witness ==
    /\ pc = "classify"
    /\ Len(blocks) = 1
    /\ Len(block_nodes[1]) = 2
    /\ Len(KeptTexts(doc, Len(doc))) = 2
    /\ \E p \in 1..Len(doc) : doc[p].kind = "text" /\ InScript(doc, p)

\* C19: every emitted block has a text that is not empty and has no
\* whitespace at its ends, and at least one word; no string of the run is
\* whitespace only; and a step of the linearizer taken with an empty run
\* emits no block.
C19_NoEmptyBlock ==
    /\ [](/\ \A b \in 1..Len(blocks) :
                /\ blocks[b].text # <<>>
                /\ Strip(blocks[b].text) = blocks[b].text
                /\ blocks[b].num_words >= 1
          /\ \A k \in 1..Len(current_text) : Strip(current_text[k]) # <<>>)
    /\ [][(pc = "linearize" /\ current_text = <<>>) => blocks' = blocks]_vars

\* The linearizer has returned one block for a document with a block
\* element that holds nothing but a whitespace-only text node.
C19_Witness ==
    /\ pc = "classify"
    /\ Len(blocks) = 1
    /\ \E p \in 2..(Len(tree) - 1) :
        /\ tree[p].kind = "text"
        /\ Strip(tree[p].text) = <<>>
        /\ tree[p - 1].kind = "open"
        /\ tree[p - 1].name \in cfg.block_tags
        /\ tree[p + 1].kind = "close"

====
